---- MODULE Spec2Model ----
(***************************************************************************)
(* Flip House Evaluator: the valuation engine of src/flip_logic.py, and    *)
(* the script src/app.py that drives it.                                   *)
(*                                                                         *)
(* SpecCalc and SpecData apply the functions of flip_logic.py to inputs    *)
(* drawn from bounded sets.  SpecApp is the run of the script app.py.      *)
(*                                                                         *)
(* Python floats are modelled as exact rationals <<n, d>> in lowest terms  *)
(* with d > 0.  Three values with a non-positive second component stand    *)
(* for what is not a number: NaN (float("nan") and a missing cell of the   *)
(* table), NoneVal (Python's None) and ZDE (the ZeroDivisionError that a   *)
(* float division by 0.0 raises).                                          *)
(***************************************************************************)
EXTENDS Integers, Sequences, FiniteSets, TLC

VARIABLES pc, inp, bc_inicial, preco_otimo, bc_otimo, stress_initial,
          stress_opt, uncaught, source, market_df, load_exc, req, pv_m2, abs_res

vars == <<pc, inp, bc_inicial, preco_otimo, bc_otimo, stress_initial,
          stress_opt, uncaught, source, market_df, load_exc, req, pv_m2, abs_res>>

calcVars == <<inp, bc_inicial, preco_otimo, bc_otimo, stress_initial, stress_opt,
              uncaught>>
dataVars == <<source, market_df, load_exc, req, pv_m2, abs_res>>

----------------------------------------------------------------------------
(* Exact arithmetic standing for Python's float arithmetic.                *)

NaN == <<0, 0>>
NoneVal == <<0, -1>>
ZDE == <<1, 0>>

IsNum(x) == x[2] > 0

Abs(n) == IF n < 0 THEN -n ELSE n

RECURSIVE GCD(_, _)
GCD(a, b) == IF b = 0 THEN a ELSE GCD(b, a % b)

Norm(n, d) ==
    LET g == GCD(Abs(n), Abs(d))
        sg == IF d < 0 THEN -1 ELSE 1
    IN <<sg * (n \div g), sg * (d \div g)>>

Frac(n, d) == Norm(n, d)
Zero == <<0, 1>>
One == <<1, 1>>

\* x + y; a non-number operand propagates, as NaN does in IEEE arithmetic
RAdd(x, y) ==
    IF ~IsNum(x) THEN x
    ELSE IF ~IsNum(y) THEN y
    ELSE LET l == (x[2] \div GCD(x[2], y[2])) * y[2]
         IN Norm(x[1] * (l \div x[2]) + y[1] * (l \div y[2]), l)

RNeg(x) == IF ~IsNum(x) THEN x ELSE <<-x[1], x[2]>>

RSub(x, y) == RAdd(x, RNeg(y))

RMul(x, y) ==
    IF ~IsNum(x) THEN x
    ELSE IF ~IsNum(y) THEN y
    ELSE LET g1 == GCD(Abs(x[1]), y[2])
             g2 == GCD(Abs(y[1]), x[2])
         IN <<(x[1] \div g1) * (y[1] \div g2), (x[2] \div g2) * (y[2] \div g1)>>

\* x / y for y a number other than zero
RDiv(x, y) ==
    IF ~IsNum(x) THEN x
    ELSE IF ~IsNum(y) THEN y
    ELSE RMul(x, IF y[1] > 0 THEN <<y[2], y[1]>> ELSE <<-y[2], -y[1]>>)

\* Python's x / y on floats: ZeroDivisionError when y is 0.0
PyDiv(x, y) == IF y = Zero THEN ZDE ELSE RDiv(x, y)

\* Python's comparisons: every comparison with NaN is False
RLt(x, y) == IsNum(x) /\ IsNum(y) /\ RSub(x, y)[1] < 0
RLe(x, y) == IsNum(x) /\ IsNum(y) /\ RSub(x, y)[1] <= 0
RGt(x, y) == RLt(y, x)
RGe(x, y) == RLe(y, x)

\* Python's max(x, y) on numbers: y only when y > x
RMax(x, y) == IF RGt(y, x) THEN y ELSE x

\* bool(x) of a float or None: None and 0.0 are falsy, NaN is truthy
Truthy(x) == x # NoneVal /\ x # Zero

----------------------------------------------------------------------------
(* src/flip_logic.py: the fixed tables.                                    *)

CostBaixo == 300
CostMedio == 600
CostAlto == 900

\* RENOVATION_COSTS.get(obra_level, RENOVATION_COSTS["Médio"])
RENOVATION_COSTS(obra_level) ==
    CASE obra_level = "Baixo" -> Frac(CostBaixo, 1)
      [] obra_level = "Médio" -> Frac(CostMedio, 1)
      [] obra_level = "Alto" -> Frac(CostAlto, 1)
      [] OTHER -> Frac(CostMedio, 1)

\* a map that sends T4+ to the overall column
TIPOLOGY_MAP_T4Total(tipologia) ==
    CASE tipologia = "T0" -> "T1"
      [] tipologia = "T1" -> "T1"
      [] tipologia = "T2" -> "T2"
      [] tipologia = "T3" -> "T3"
      [] OTHER -> "Total"

\* TIPOLOGY_MAP.get(tipologia, "Total")
TIPOLOGY_MAP(tipologia) ==
    CASE tipologia = "T0" -> "T1"
      [] tipologia = "T1" -> "T1"
      [] tipologia = "T2" -> "T2"
      [] tipologia = "T3" -> "T3"
      [] tipologia = "T4+" -> "T3"
      [] OTHER -> "Total"

----------------------------------------------------------------------------
(* calc_business_case                                                      *)

BCFields == {"compra", "area_m2", "venda_m2", "venda_bruta", "venda_prudente",
             "obra_base", "obra_total", "aquisicao", "holding",
             "investimento_total", "venda_fee", "lucro_liquido",
             "margem_liquida", "roi", "breakeven_venda"}

\* a guard that lets a zero sale value through
MargemGuardNonNegative(venda_prudente) == RGe(venda_prudente, Zero)

\* the guard of margem_liquida: divide only when venda_prudente > 0
MargemGuard(venda_prudente) == RGt(venda_prudente, Zero)

\* the guard of roi: divide only when investimento_total > 0
RoiGuard(investimento_total) == RGt(investimento_total, Zero)

\* 1e-9, the floor of the break-even divisor
EpsDen == 1000000000
Eps == <<1, EpsDen>>

\* max((1.0 - taxa_venda), 1e-9)
BreakevenDivisor(taxa_venda) == RMax(RSub(One, taxa_venda), Eps)

\* The quotient investimento_total / divisor is kept as the pair
\* <<dividend, divisor>>: with the divisor 1e-9 its value leaves the range
\* of TLC's integers.  A zero divisor is the ZeroDivisionError.
Quotient(x, y) == IF y = Zero THEN <<ZDE, y>> ELSE <<x, y>>

\* a holding cost charged on the purchase price alone
HoldingOnPurchaseOnly(compra, obra_total, taxa_holding) == RMul(compra, taxa_holding)

\* holding = (compra + obra_total) * taxa_holding
HoldingCost(compra, obra_total, taxa_holding) ==
    RMul(RAdd(compra, obra_total), taxa_holding)

\* The parameters margem_alvo and abs_meses of the function are accepted and
\* never read; the operator takes the nine parameters the body reads.
calc_business_case(compra, area_m2, venda_m2, obra_level, taxa_aquisicao, taxa_venda, taxa_holding, contingencia_obra, prudencia_venda) ==
    LET venda_bruta == RMul(venda_m2, area_m2)
        venda_prudente == RMul(venda_bruta, RAdd(One, prudencia_venda))
        base_cost == RENOVATION_COSTS(obra_level)
        obra_base == RMul(base_cost, area_m2)
        obra_total == RMul(obra_base, RAdd(One, contingencia_obra))
        aquisicao == RMul(compra, taxa_aquisicao)
        holding == HoldingCost(compra, obra_total, taxa_holding)
        investimento_total == RAdd(RAdd(RAdd(compra, aquisicao), obra_total), holding)
        venda_fee == RMul(venda_prudente, taxa_venda)
        lucro_liquido == RSub(venda_prudente, RAdd(investimento_total, venda_fee))
        margem_liquida == IF MargemGuard(venda_prudente)
                          THEN PyDiv(lucro_liquido, venda_prudente) ELSE NaN
        roi == IF RoiGuard(investimento_total)
               THEN PyDiv(lucro_liquido, investimento_total) ELSE NaN
        breakeven_venda == Quotient(investimento_total, BreakevenDivisor(taxa_venda))
        raised == margem_liquida = ZDE \/ roi = ZDE \/ breakeven_venda[1] = ZDE
    IN [exc |-> IF raised THEN "ZeroDivisionError" ELSE "none",
        compra |-> compra,
        area_m2 |-> area_m2,
        venda_m2 |-> venda_m2,
        venda_bruta |-> venda_bruta,
        venda_prudente |-> venda_prudente,
        obra_base |-> obra_base,
        obra_total |-> obra_total,
        aquisicao |-> aquisicao,
        holding |-> holding,
        investimento_total |-> investimento_total,
        venda_fee |-> venda_fee,
        lucro_liquido |-> lucro_liquido,
        margem_liquida |-> margem_liquida,
        roi |-> roi,
        breakeven_venda |-> breakeven_venda]

----------------------------------------------------------------------------
(* calc_optimal_purchase_price                                             *)

\* a guard that lets a zero denominator through
DenomGuardNonNegative(denom) == RGe(denom, Zero)

\* the guard of the division: divide only when denom > 0
DenomGuard(denom) == RGt(denom, Zero)

\* max(0.0, P)
Clamp(P) == RMax(Zero, P)

\* a solver that forgets the holding cost of the renovation
calc_optimal_renovation_unheld(venda_prudente, obra_total, taxa_aquisicao, taxa_holding, taxa_venda, margem_alvo) ==
    LET denom == RAdd(RAdd(One, taxa_aquisicao), taxa_holding)
        rhs == RSub(RMul(venda_prudente, RSub(RSub(One, taxa_venda), margem_alvo)),
                    obra_total)
        P == IF RGt(denom, Zero) THEN PyDiv(rhs, denom) ELSE Zero
    IN IF P = ZDE THEN ZDE ELSE RMax(Zero, P)

calc_optimal_purchase_price(venda_prudente, obra_total, taxa_aquisicao, taxa_holding, taxa_venda, margem_alvo) ==
    LET V == venda_prudente
        W == obra_total
        a == taxa_aquisicao
        h == taxa_holding
        s == taxa_venda
        m == margem_alvo
        denom == RAdd(RAdd(One, a), h)
        rhs == RSub(RMul(V, RSub(RSub(One, s), m)), RMul(W, RAdd(One, h)))
        P == IF DenomGuard(denom) THEN PyDiv(rhs, denom) ELSE Zero
    IN IF P = ZDE THEN ZDE ELSE Clamp(P)

----------------------------------------------------------------------------
(* stress_test_cases                                                       *)

\* the guards of the re-derived rates: divide only when the denominator > 0
RateGuard(den) == RGt(den, Zero)

\* rate = num / den if den > 0 else 0.0
DeriveRate(num, den) == IF RateGuard(den) THEN PyDiv(num, den) ELSE Zero

\* meses = abs_meses if (abs_meses and abs_meses > 0) else 6.0
EffectiveMeses(abs_meses) ==
    IF Truthy(abs_meses) /\ RGt(abs_meses, Zero) THEN abs_meses ELSE Frac(6, 1)

\* a delay scenario that leaves the holding time as it is
DelayScaleNone(abs_meses) == One

\* scale = (meses + 3.0) / meses if meses > 0 else 1.5
DelayScale(abs_meses) ==
    LET meses == EffectiveMeses(abs_meses)
    IN IF RGt(meses, Zero) THEN PyDiv(RAdd(meses, Frac(3, 1)), meses) ELSE Frac(3, 2)

\* the sale value, renovation value and holding scale of each scenario
ScenarioArgs(bc, abs_meses) ==
    <<[nome |-> "Base", V |-> bc.venda_prudente, W |-> bc.obra_total, scale |-> One],
      [nome |-> "Venda -5%", V |-> RMul(bc.venda_prudente, Frac(95, 100)),
       W |-> bc.obra_total, scale |-> One],
      [nome |-> "Obra +10%", V |-> bc.venda_prudente,
       W |-> RMul(bc.obra_total, Frac(110, 100)), scale |-> One],
      [nome |-> "Atraso +3 meses", V |-> bc.venda_prudente, W |-> bc.obra_total,
       scale |-> DelayScale(abs_meses)]>>

\* the inner function recompute(V, W, meses_scale) with the rates in scope
recompute(base_P, taxa_aquisicao, taxa_holding, taxa_venda, V, W, meses_scale) ==
    LET aq == RMul(base_P, taxa_aquisicao)
        hold == RMul(RMul(RAdd(base_P, W), taxa_holding), meses_scale)
        inv == RAdd(RAdd(RAdd(base_P, aq), W), hold)
        fee == RMul(V, taxa_venda)
        lucro == RSub(V, RAdd(inv, fee))
        margem == IF MargemGuard(V) THEN PyDiv(lucro, V) ELSE NaN
    IN [lucro |-> lucro, margem |-> margem]

stress_test_cases(bc, abs_meses) ==
    LET base_V == bc.venda_prudente
        base_W == bc.obra_total
        base_P == bc.compra
        base_aq == bc.aquisicao
        base_hold == bc.holding
        base_fee == bc.venda_fee
        taxa_venda == DeriveRate(base_fee, base_V)
        taxa_aquisicao == DeriveRate(base_aq, base_P)
        denom_hw == RAdd(base_P, base_W)
        taxa_holding == DeriveRate(base_hold, denom_hw)
        args == ScenarioArgs(bc, abs_meses)
        out == [i \in 1..4 |->
                  LET r == recompute(base_P, taxa_aquisicao, taxa_holding, taxa_venda,
                                     args[i].V, args[i].W, args[i].scale)
                  IN [nome |-> args[i].nome, lucro |-> r.lucro, margem |-> r.margem]]
        raised == \E i \in 1..4 : out[i].lucro = ZDE \/ out[i].margem = ZDE
    IN [exc |-> IF raised THEN "ZeroDivisionError" ELSE "none", out |-> out]

----------------------------------------------------------------------------
(* The calculation run: calc_business_case on drawn arguments, then        *)
(* calc_optimal_purchase_price on its sale-side figures, calc_business_case *)
(* again at the price found, and stress_test_cases on both records.  Each  *)
(* function of flip_logic.py is called with one value per parameter.       *)

MaxCompra == 2
MaxArea == 2

Compras == {Frac(1000 * k, 1) : k \in -1..MaxCompra}
Areas == {Frac(k, 1) : k \in 0..MaxArea}
Vendas_m2 == {Frac(2000, 1)}
ObraLevels == {"Baixo", "Alto", "Luxo"}
TaxasAquisicao == {Frac(-1, 1), Zero, Frac(1, 4)}
TaxasVenda == {Zero, Frac(1, 4), One}
TaxasHolding == {Frac(-1, 2), Zero, Frac(1, 4)}
Contingencias == {Frac(-3, 2), Frac(1, 2)}
Prudencias == {Frac(-3, 2), Frac(-1, 4)}
MargensAlvo == {Frac(-1, 4), Zero, Frac(1, 4)}
AbsMeses == {NoneVal, Frac(-2, 1), Zero, Frac(3, 1)}

NoBC == [f \in BCFields \cup {"exc"} |-> IF f = "exc" THEN "none" ELSE NaN]
NoStress == [exc |-> "none", out |-> <<>>]
NoInp == [compra |-> NaN, area_m2 |-> NaN, venda_m2 |-> NaN, obra_level |-> "",
          taxa_aquisicao |-> NaN, taxa_venda |-> NaN, taxa_holding |-> NaN,
          contingencia_obra |-> NaN, prudencia_venda |-> NaN,
          margem_alvo |-> NaN, abs_meses |-> NaN]

NoData == /\ source = <<>>
          /\ market_df = <<>>
          /\ load_exc = "none"
          /\ req = <<>>
          /\ pv_m2 = <<>>
          /\ abs_res = <<>>

InitCalc ==
    /\ pc = "inputs"
    /\ inp = NoInp
    /\ bc_inicial = NoBC
    /\ preco_otimo = NaN
    /\ bc_otimo = NoBC
    /\ stress_initial = NoStress
    /\ stress_opt = NoStress
    /\ uncaught = "none"
    /\ NoData

\* calc_business_case with its parameters bound from a record of arguments
BusinessCaseOf(compra, i) ==
    calc_business_case(compra, i.area_m2, i.venda_m2, i.obra_level, i.taxa_aquisicao,
                       i.taxa_venda, i.taxa_holding, i.contingencia_obra,
                       i.prudencia_venda)

\* calc_business_case applied to drawn arguments
ApplyBusinessCase ==
    /\ pc = "inputs"
    /\ \E compra \in Compras, area_m2 \in Areas, venda_m2 \in Vendas_m2,
          obra_level \in ObraLevels, taxa_aquisicao \in TaxasAquisicao,
          taxa_venda \in TaxasVenda, taxa_holding \in TaxasHolding,
          contingencia_obra \in Contingencias, prudencia_venda \in Prudencias,
          margem_alvo \in MargensAlvo :
        /\ inp' = [compra |-> compra, area_m2 |-> area_m2, venda_m2 |-> venda_m2,
                   obra_level |-> obra_level, taxa_aquisicao |-> taxa_aquisicao,
                   taxa_venda |-> taxa_venda, taxa_holding |-> taxa_holding,
                   contingencia_obra |-> contingencia_obra,
                   prudencia_venda |-> prudencia_venda,
                   margem_alvo |-> margem_alvo, abs_meses |-> NaN]
        /\ bc_inicial' = BusinessCaseOf(compra, inp')
    /\ pc' = IF bc_inicial'.exc = "none" THEN "bc_inicial" ELSE "raised"
    /\ UNCHANGED <<preco_otimo, bc_otimo, stress_initial, stress_opt, uncaught>>
    /\ UNCHANGED dataVars

\* calc_optimal_purchase_price applied to the sale-side figures of the record
ApplyOptimalPrice ==
    /\ pc = "bc_inicial"
    /\ preco_otimo' = calc_optimal_purchase_price(
                          bc_inicial.venda_prudente, bc_inicial.obra_total,
                          inp.taxa_aquisicao, inp.taxa_holding, inp.taxa_venda,
                          inp.margem_alvo)
    /\ pc' = IF preco_otimo' = ZDE THEN "raised" ELSE "preco_otimo"
    /\ UNCHANGED <<inp, bc_inicial, bc_otimo, stress_initial, stress_opt, uncaught>>
    /\ UNCHANGED dataVars

\* calc_business_case applied at the price the solver returned
ApplyBusinessCaseAtOptimal ==
    /\ pc = "preco_otimo"
    /\ bc_otimo' = BusinessCaseOf(preco_otimo, inp)
    /\ pc' = IF bc_otimo'.exc = "none" THEN "bc_otimo" ELSE "raised"
    /\ UNCHANGED <<inp, bc_inicial, preco_otimo, stress_initial, stress_opt,
                   uncaught>>
    /\ UNCHANGED dataVars

\* stress_test_cases applied to both records, for a drawn abs_meses
ApplyStressTests ==
    /\ pc = "bc_otimo"
    /\ \E abs_meses \in AbsMeses :
        /\ inp' = [inp EXCEPT !.abs_meses = abs_meses]
        /\ stress_initial' = stress_test_cases(bc_inicial, abs_meses)
        /\ stress_opt' = stress_test_cases(bc_otimo, abs_meses)
    /\ pc' = IF stress_initial'.exc = "none" /\ stress_opt'.exc = "none"
             THEN "stressed" ELSE "raised"
    /\ UNCHANGED <<bc_inicial, preco_otimo, bc_otimo, uncaught>>
    /\ UNCHANGED dataVars

NextCalc == \/ ApplyBusinessCase
            \/ ApplyOptimalPrice
            \/ ApplyBusinessCaseAtOptimal
            \/ ApplyStressTests

SpecCalc == InitCalc /\ [][NextCalc]_vars

----------------------------------------------------------------------------
(* Text: a string is a sequence of characters.                             *)

\* str.casefold() on the letters of the model's alphabet
FoldChar(c) ==
    CASE c = "L" -> "l"
      [] c = "B" -> "b"
      [] c = "X" -> "x"
      [] OTHER -> c

Casefold(s) == [i \in 1..Len(s) |-> FoldChar(s[i])]

IsSpace(c) == c = " "

RECURSIVE LStrip(_)
LStrip(s) == IF s # <<>> /\ IsSpace(Head(s)) THEN LStrip(Tail(s)) ELSE s

RECURSIVE RStrip(_)
RStrip(s) == IF s # <<>> /\ IsSpace(s[Len(s)])
             THEN RStrip(SubSeq(s, 1, Len(s) - 1)) ELSE s

\* str.strip()
Strip(s) == RStrip(LStrip(s))

DigitChars == {"0", "1", "2", "3", "4", "5", "6", "7", "8", "9"}

DigitVal(c) ==
    CASE c = "0" -> 0 [] c = "1" -> 1 [] c = "2" -> 2 [] c = "3" -> 3
      [] c = "4" -> 4 [] c = "5" -> 5 [] c = "6" -> 6 [] c = "7" -> 7
      [] c = "8" -> 8 [] c = "9" -> 9

RECURSIVE ParseDigits(_)
ParseDigits(s) ==
    IF s = <<>> THEN 0
    ELSE 10 * ParseDigits(SubSeq(s, 1, Len(s) - 1)) + DigitVal(s[Len(s)])

----------------------------------------------------------------------------
(* load_market_data                                                        *)

\* a cell of the sheet as pd.read_excel returns it
NACell == [kind |-> "na", num |-> NaN, str |-> <<>>]
NumCell(x) == [kind |-> "num", num |-> x, str |-> <<>>]
StrCell(s) == [kind |-> "str", num |-> NaN, str |-> s]

\* the positional layout assigned to df2.columns
ColumnNames ==
    <<"Regiao", "Localidade", "_",
      "Fogos_Total", "Fogos_T1", "Fogos_T2", "Fogos_T3", "Fogos_Moradia",
      "Preco_m2_Total", "Preco_m2_T1", "Preco_m2_T2", "Preco_m2_T3", "Preco_m2_Moradia",
      "Preco_Fogo_Total", "_1", "_2", "_3", "_4",
      "Absorcao_Total", "Absorcao_T1", "Absorcao_T2", "Absorcao_T3", "Absorcao_Moradia">>

\* the column count the guard of the loader compares with
MinColumns == 23

CoercedColumns == {"Preco_m2_T1", "Preco_m2_T2", "Preco_m2_T3", "Preco_m2_Moradia",
                   "Absorcao_Total", "Absorcao_T1", "Absorcao_T2", "Absorcao_T3",
                   "Absorcao_Moradia"}

\* pd.to_numeric(..., errors="coerce") on one cell: a number stays, a text of
\* digits is parsed, anything else becomes NaN
ToNumeric(cell) ==
    CASE cell.kind = "num" -> cell.num
      [] cell.kind = "str" ->
            IF cell.str # <<>> /\ \A i \in 1..Len(cell.str) : cell.str[i] \in DigitChars
            THEN Frac(ParseDigits(cell.str), 1) ELSE NaN
      [] OTHER -> NaN

\* pd.notna on a coerced value
NotNa(x) == x # NaN

\* the shape guard: df.shape[1] < 23 raises
TooFewColumns(ncols) == ncols < MinColumns

\* df2.columns = [...]: pandas raises ValueError (length mismatch) unless the
\* frame has exactly as many columns as names are assigned
ColumnsAssignable(ncols) == ncols = Len(ColumnNames)

HasLocalidade(r) == r["Localidade"].kind # "na"
HasPrecoTotal(r) == NotNa(r["Preco_m2_Total"])

\* df2["Localidade"].astype(str).str.strip() on a text cell
TrimLocalidade(cell) == Strip(cell.str)

load_market_data(src) ==
    IF TooFewColumns(src.ncols)
    THEN [exc |-> "ValueError: Estrutura do Excel inesperada", df |-> <<>>]
    ELSE IF ~ColumnsAssignable(src.ncols)
    THEN [exc |-> "ValueError: Length mismatch", df |-> <<>>]
    ELSE
      LET named == [i \in 1..Len(src.rows) |->
                      [c \in {ColumnNames[k] : k \in 1..Len(ColumnNames)} |->
                          src.rows[i][CHOOSE k \in 1..Len(ColumnNames) : ColumnNames[k] = c]]]
          located == SelectSeq(named, HasLocalidade)
          priced == [i \in 1..Len(located) |->
                       [located[i] EXCEPT !["Preco_m2_Total"] = ToNumeric(@)]]
          kept == SelectSeq(priced, HasPrecoTotal)
          coerced == [i \in 1..Len(kept) |->
                        [c \in DOMAIN kept[i] |->
                            IF c \in CoercedColumns THEN ToNumeric(kept[i][c])
                            ELSE kept[i][c]]]
          trimmed == [i \in 1..Len(coerced) |->
                        [coerced[i] EXCEPT !["Localidade"] = TrimLocalidade(@)]]
      IN [exc |-> "none", df |-> trimmed]

----------------------------------------------------------------------------
(* _pick_row, get_sale_price_per_m2, estimate_absorption_months            *)

\* a row filter that compares the spellings as they are
LocalidadeMatchesExact(rowLocalidade, localidade) == rowLocalidade = localidade

\* the row filter of _pick_row
LocalidadeMatches(rowLocalidade, localidade) ==
    Casefold(rowLocalidade) = Casefold(localidade)

\* _pick_row: <<found, row>>; found is FALSE where the code raises ValueError
pick_row(df, localidade) ==
    LET Test(r) == LocalidadeMatches(r["Localidade"], localidade)
        match == SelectSeq(df, Test)
    IN IF match = <<>> THEN [found |-> FALSE, row |-> <<>>]
       ELSE [found |-> TRUE, row |-> match[1]]

NotFound == [exc |-> "ValueError: Localidade nao encontrada", val |-> NaN, label |-> ""]

Result(val, label) == [exc |-> "none", val |-> val, label |-> label]

get_sale_price_per_m2(df, localidade, tipologia) ==
    LET p == pick_row(df, localidade)
        row == p.row
        t == TIPOLOGY_MAP(tipologia)
    IN IF ~p.found THEN NotFound
       ELSE IF t = "T1" /\ NotNa(row["Preco_m2_T1"])
            THEN Result(row["Preco_m2_T1"], "Apt. T1 (ou inf.)")
       ELSE IF t = "T2" /\ NotNa(row["Preco_m2_T2"])
            THEN Result(row["Preco_m2_T2"], "Apt. T2")
       ELSE IF t = "T3" /\ NotNa(row["Preco_m2_T3"])
            THEN Result(row["Preco_m2_T3"], "Apt. T3 (proxy p/ T4+)")
       ELSE Result(row["Preco_m2_Total"], "Total (fallback)")

\* col_map.get(t, None); "" stands for None
col_map(t) ==
    CASE t = "T1" -> "Absorcao_T1"
      [] t = "T2" -> "Absorcao_T2"
      [] t = "T3" -> "Absorcao_T3"
      [] OTHER -> ""

\* an estimate without the default of 6 months
estimate_absorption_no_default(df, localidade, tipologia) ==
    LET p == pick_row(df, localidade)
        row == p.row
        col == col_map(TIPOLOGY_MAP(tipologia))
    IN IF ~p.found THEN NotFound
       ELSE IF col # "" /\ NotNa(row[col]) THEN Result(row[col], col)
       ELSE Result(row["Absorcao_Total"], "Absorcao_Total (fallback)")

estimate_absorption_months(df, localidade, tipologia) ==
    LET p == pick_row(df, localidade)
        row == p.row
        t == TIPOLOGY_MAP(tipologia)
        col == col_map(t)
    IN IF ~p.found THEN NotFound
       ELSE IF col # "" /\ NotNa(row[col])
            THEN Result(row[col], col)
       ELSE IF NotNa(row["Absorcao_Total"])
            THEN Result(row["Absorcao_Total"], "Absorcao_Total (fallback)")
       ELSE Result(Frac(6, 1), "Default 6 (sem dados)")

----------------------------------------------------------------------------
(* The data run: load_market_data on a drawn sheet, then one of the two    *)
(* resolvers on a drawn locality and typology.                             *)

MaxRows == 2
ColsBelow == 2
ColsAbove == 2

PrecoPositions == {10, 11, 12}
AbsorcaoPositions == {19, 20, 21, 22}
MoradiaPositions == {13, 23}

\* an unusable numeric cell: empty, or a text that is no number
Absent(c) == IF c % 2 = 0 THEN NACell ELSE StrCell(<<"n", "d">>)

\* the sheet row at position i: its locality cell, its overall price cell and
\* the set of positions whose numeric cell is filled
MkRow(ncols, i, loc, total, present) ==
    [c \in 1..ncols |->
        CASE c = 1 -> StrCell(<<"R">>)
          [] c = 2 -> loc
          [] c = 9 -> total
          [] c \in PrecoPositions \cup AbsorcaoPositions \cup MoradiaPositions ->
                IF c \in present THEN NumCell(Frac(100 * i + c, 1)) ELSE Absent(c)
          [] OTHER -> NumCell(Frac(c, 1))]

AllPresent == PrecoPositions \cup AbsorcaoPositions \cup MoradiaPositions

\* rows of the locality " Lb": every combination of filled price cells with
\* the absorption cells filled, and every combination of filled absorption
\* cells with the price cells filled
RichRows ==
    {[kind |-> "rich", present |-> pm \cup AbsorcaoPositions \cup MoradiaPositions] :
        pm \in SUBSET PrecoPositions}
    \cup {[kind |-> "rich", present |-> PrecoPositions \cup am \cup MoradiaPositions] :
        am \in SUBSET AbsorcaoPositions}

\* rows the loader drops (no locality, no numeric overall price) and complete
\* rows of other spellings and localities
PlainRows == {[kind |-> k, present |-> AllPresent] :
                k \in {"no locality", "text price", "digits price", "other"}}

\* the sheet row that a row description stands for, at position i
RowOf(ncols, i, d) ==
    CASE d.kind = "rich" ->
            MkRow(ncols, i, StrCell(<<" ", "L", "b">>), NumCell(Frac(100 * i + 9, 1)),
                  d.present)
      [] d.kind = "no locality" ->
            MkRow(ncols, i, NACell, NumCell(Frac(100 * i + 9, 1)), d.present)
      [] d.kind = "text price" ->
            MkRow(ncols, i, StrCell(<<"L", "b">>), StrCell(<<"n", "d">>), d.present)
      [] d.kind = "digits price" ->
            MkRow(ncols, i, StrCell(<<"L", "B", " ">>), StrCell(<<"1", "5">>), d.present)
      [] OTHER ->
            MkRow(ncols, i, StrCell(<<"b", "l">>), NumCell(Frac(100 * i + 9, 1)),
                  d.present)

\* the sheets of n rows: at most one row varies its filled cells
SheetRows(n) ==
    {plain : plain \in [1..n -> PlainRows]}
    \cup {[i \in 1..n |-> IF i = k THEN r ELSE plain[i]] :
            k \in 1..n, r \in RichRows, plain \in [1..n -> PlainRows]}

Sources ==
    UNION {{[ncols |-> ncols, rows |-> [i \in 1..n |-> RowOf(ncols, i, rows[i])]] :
               rows \in SheetRows(n)} :
             ncols \in (MinColumns - ColsBelow)..(MinColumns + ColsAbove),
             n \in 0..MaxRows}

Localidades == {<<"l", "b">>, <<"L", "B">>, <<"L", "b">>, <<"b", "l">>, <<"x">>}
Tipologias == {"T0", "T1", "T2", "T3", "T4+", "T5"}

NoCalc == /\ inp = NoInp
          /\ bc_inicial = NoBC
          /\ preco_otimo = NaN
          /\ bc_otimo = NoBC
          /\ stress_initial = NoStress
          /\ stress_opt = NoStress
          /\ uncaught = "none"

InitData ==
    /\ pc = "start"
    /\ NoData
    /\ NoCalc

\* load_market_data applied to a drawn sheet
ApplyLoadMarketData ==
    /\ pc = "start"
    /\ \E src \in Sources :
        LET loaded == load_market_data(src)
        IN /\ source' = src
           /\ market_df' = loaded.df
           /\ load_exc' = loaded.exc
    /\ pc' = IF load_exc' = "none" THEN "loaded" ELSE "load_failed"
    /\ UNCHANGED <<req, pv_m2, abs_res>>
    /\ UNCHANGED calcVars

\* get_sale_price_per_m2 applied to the table, a drawn locality and typology
ApplyGetSalePrice ==
    /\ pc = "loaded"
    /\ \E localidade \in Localidades, tipologia \in Tipologias :
        /\ req' = [localidade |-> localidade, tipologia |-> tipologia]
        /\ pv_m2' = get_sale_price_per_m2(market_df, localidade, tipologia)
    /\ pc' = "priced"
    /\ UNCHANGED <<source, market_df, load_exc, abs_res>>
    /\ UNCHANGED calcVars

\* estimate_absorption_months applied to the table, a drawn locality and typology
ApplyEstimateAbsorption ==
    /\ pc = "loaded"
    /\ \E localidade \in Localidades, tipologia \in Tipologias :
        /\ req' = [localidade |-> localidade, tipologia |-> tipologia]
        /\ abs_res' = estimate_absorption_months(market_df, localidade, tipologia)
    /\ pc' = "absorbed"
    /\ UNCHANGED <<source, market_df, load_exc, pv_m2>>
    /\ UNCHANGED calcVars

NextData == ApplyLoadMarketData \/ ApplyGetSalePrice \/ ApplyEstimateAbsorption

SpecData == InitData /\ [][NextData]_vars

----------------------------------------------------------------------------
(* The run of the script src/app.py, top to bottom.                        *)

\* the options of the typology selectbox
FormTipologias == {"T0", "T1", "T2", "T3", "T4+"}

\* the value a selectbox without options returns: None
NoneLocalidade == <<"None">>

\* localidades: the distinct values of the column Localidade of the table
LocalidadeOptions(df) == {df[i]["Localidade"] : i \in 1..Len(df)}

AttributeErrorCasefold == "AttributeError: 'NoneType' object has no attribute 'casefold'"
TypeErrorObraLevel == "TypeError: calc_business_case() got multiple values for keyword argument 'obra_level'"

InitApp ==
    /\ pc = "app_start"
    /\ NoData
    /\ NoCalc

\* market_df = _cached_load(data_file); an exception of the loader is shown
\* and the script stops
AppLoad ==
    /\ pc = "app_start"
    /\ \E src \in Sources :
        LET loaded == load_market_data(src)
        IN /\ source' = src
           /\ market_df' = loaded.df
           /\ load_exc' = loaded.exc
    /\ pc' = IF load_exc' = "none" THEN "app_loaded" ELSE "app_stopped"
    /\ UNCHANGED <<req, pv_m2, abs_res>>
    /\ UNCHANGED calcVars

\* the form: the typology and the locality are selected, the locality among
\* the localities of the table (None when the table has none)
AppSelect ==
    /\ pc = "app_loaded"
    /\ \E tipologia \in FormTipologias,
          localidade \in (IF LocalidadeOptions(market_df) = {}
                          THEN {NoneLocalidade}
                          ELSE LocalidadeOptions(market_df)) :
        req' = [localidade |-> localidade, tipologia |-> tipologia]
    /\ pc' = "app_selected"
    /\ UNCHANGED <<source, market_df, load_exc, pv_m2, abs_res>>
    /\ UNCHANGED calcVars

\* pv_m2, pv_m2_source = get_sale_price_per_m2(market_df, localidade, tipologia);
\* _pick_row calls localidade.casefold()
AppSalePrice ==
    /\ pc = "app_selected"
    /\ IF req.localidade = NoneLocalidade
       THEN /\ uncaught' = AttributeErrorCasefold
            /\ pc' = "app_raised"
            /\ UNCHANGED pv_m2
       ELSE /\ pv_m2' = get_sale_price_per_m2(market_df, req.localidade, req.tipologia)
            /\ uncaught' = pv_m2'.exc
            /\ pc' = IF pv_m2'.exc = "none" THEN "app_priced" ELSE "app_raised"
    /\ UNCHANGED <<source, market_df, load_exc, req, abs_res>>
    /\ UNCHANGED <<inp, bc_inicial, preco_otimo, bc_otimo, stress_initial, stress_opt>>

\* abs_meses, abs_source = estimate_absorption_months(market_df, localidade, tipologia)
AppAbsorption ==
    /\ pc = "app_priced"
    /\ abs_res' = estimate_absorption_months(market_df, req.localidade, req.tipologia)
    /\ uncaught' = abs_res'.exc
    /\ pc' = IF abs_res'.exc = "none" THEN "app_absorbed" ELSE "app_raised"
    /\ UNCHANGED <<source, market_df, load_exc, req, pv_m2>>
    /\ UNCHANGED <<inp, bc_inicial, preco_otimo, bc_otimo, stress_initial, stress_opt>>

\* bc_inicial = calc_business_case(compra=..., obra_level=renovacao, **base_params):
\* base_params holds obra_level too, so the call raises TypeError before the
\* body of calc_business_case runs, whatever the values of the widgets are.
\* bc_inicial stays unbound and no later statement of the script is reached.
AppBcInicial ==
    /\ pc = "app_absorbed"
    /\ uncaught' = TypeErrorObraLevel
    /\ pc' = "app_raised"
    /\ UNCHANGED <<inp, bc_inicial, preco_otimo, bc_otimo, stress_initial, stress_opt>>
    /\ UNCHANGED dataVars

NextApp == AppLoad \/ AppSelect \/ AppSalePrice \/ AppAbsorption \/ AppBcInicial

SpecApp == InitApp /\ [][NextApp]_vars

----------------------------------------------------------------------------
(* Properties of the calculation run (SpecCalc).                           *)

AfterOtimo == pc \in {"preco_otimo", "bc_otimo", "stressed"}
AfterBcOtimo == pc \in {"bc_otimo", "stressed"}

\* the denominator 1 + acquisition_rate + holding_rate of the closed form
SolverDenominator == RAdd(RAdd(One, inp.taxa_aquisicao), inp.taxa_holding)

\* the unclamped solution P* as the specification writes it:
\* [V (1 - s - m) - W (1 + h)] / (1 + a + h), for a positive denominator
UnclampedSolution ==
    RDiv(RSub(RMul(bc_inicial.venda_prudente,
                   RSub(RSub(One, inp.taxa_venda), inp.margem_alvo)),
              RMul(bc_inicial.obra_total, RAdd(One, inp.taxa_holding))),
         SolverDenominator)

SolverDomain == /\ RGt(bc_inicial.venda_prudente, Zero)
                /\ RGt(SolverDenominator, Zero)

\* net_profit >= target_net_margin * prudent_sale
MeetsTarget(bc) ==
    RGe(bc.lucro_liquido, RMul(inp.margem_alvo, bc.venda_prudente))

\* C1: with prudent_sale > 0, a positive denominator and a non-negative
\* unclamped solution, the business case at the optimal price has a net
\* margin equal to the target margin.
C1_OptimalPriceBoundary ==
    (AfterBcOtimo /\ SolverDomain /\ RGe(UnclampedSolution, Zero))
        => bc_otimo.margem_liquida = inp.margem_alvo

C1_Witness ==
    /\ pc = "bc_otimo"
    /\ SolverDomain
    /\ RGt(UnclampedSolution, Zero)
    /\ inp.margem_alvo # Zero
    /\ bc_otimo.compra = UnclampedSolution

\* C2: with prudent_sale > 0 and a positive denominator, a purchase price
\* P >= 0 meets the target exactly when P <= P*; every price above the
\* returned price misses it, the returned price itself meets it when
\* P* >= 0, and no price meets it when P* < 0 (the returned price is 0).
C2_OptimalPriceMaximal ==
    /\ (AfterOtimo /\ SolverDomain /\ RGe(inp.compra, Zero)) =>
          /\ MeetsTarget(bc_inicial) <=> RLe(inp.compra, UnclampedSolution)
          /\ RGt(inp.compra, preco_otimo) => ~MeetsTarget(bc_inicial)
          /\ RLt(UnclampedSolution, Zero) =>
                (preco_otimo = Zero /\ ~MeetsTarget(bc_inicial))
    /\ (AfterBcOtimo /\ SolverDomain) =>
          /\ RGe(UnclampedSolution, Zero) => MeetsTarget(bc_otimo)
          /\ RLt(UnclampedSolution, Zero) => ~MeetsTarget(bc_otimo)

C2_Witness ==
    /\ pc = "bc_otimo"
    /\ SolverDomain
    /\ RGt(preco_otimo, Zero)
    /\ RGt(inp.compra, preco_otimo)
    /\ ~MeetsTarget(bc_inicial)
    /\ MeetsTarget(bc_otimo)

\* C3: the solver never returns a negative value and never divides by a
\* denominator <= 0: it returns 0 when the denominator is <= 0 or the
\* unclamped solution is negative, and the unclamped solution otherwise.
C3_ClampCorrect ==
    /\ preco_otimo # ZDE
    /\ AfterOtimo =>
          /\ RGe(preco_otimo, Zero)
          /\ preco_otimo =
               IF ~RGt(SolverDenominator, Zero) THEN Zero
               ELSE IF RLt(UnclampedSolution, Zero) THEN Zero
               ELSE UnclampedSolution

C3_Witness ==
    /\ pc = "preco_otimo"
    /\ SolverDenominator = Zero
    /\ preco_otimo = Zero

\* equality of two float results, two NaN counting as the same result
SameFloat(x, y) == x = y

BaseReproduces(stress, bc) ==
    /\ stress.out[1].nome = "Base"
    /\ SameFloat(stress.out[1].lucro, bc.lucro_liquido)
    /\ SameFloat(stress.out[1].margem, bc.margem_liquida)

\* C8: for every business case computed from purchase_price >= 0, positive
\* area and price per area and any rates, the Base scenario of the stress
\* test has the profit and the net margin of the business case, for every
\* absorption value.
C8_StressBaseReproduces ==
    (pc = "stressed" /\ RGe(inp.compra, Zero) /\ RGt(inp.area_m2, Zero)
        /\ RGt(inp.venda_m2, Zero))
        => /\ BaseReproduces(stress_initial, bc_inicial)
           /\ BaseReproduces(stress_opt, bc_otimo)

\* the NaN rules of a business case record
DegeneracyAsValue(bc) ==
    /\ bc.exc = "none"
    /\ (bc.margem_liquida = NaN) <=> RLe(bc.venda_prudente, Zero)
    /\ (bc.roi = NaN) <=> RLe(bc.investimento_total, Zero)
    /\ IsNum(bc.margem_liquida) \/ bc.margem_liquida = NaN
    /\ IsNum(bc.roi) \/ bc.roi = NaN
    /\ bc.breakeven_venda[1] = bc.investimento_total
    /\ bc.breakeven_venda[2] =
          (IF RGe(RSub(One, inp.taxa_venda), Eps) THEN RSub(One, inp.taxa_venda)
           ELSE Eps)
    /\ RGt(bc.breakeven_venda[2], Zero)

\* the sale value of scenario i of the stress test of bc
ScenarioSale(bc, i) ==
    IF i = 2 THEN RMul(bc.venda_prudente, Frac(95, 100)) ELSE bc.venda_prudente

StressDegeneracyAsValue(stress, bc) ==
    /\ stress.exc = "none"
    /\ Len(stress.out) = 4
    /\ \A i \in 1..4 :
          /\ IsNum(stress.out[i].lucro)
          /\ (stress.out[i].margem = NaN) <=> RLe(ScenarioSale(bc, i), Zero)
          /\ IsNum(stress.out[i].margem) \/ stress.out[i].margem = NaN

\* C9: the calculator, the solver and the stress test never raise, for
\* zero and negative inputs included; net_margin is NaN exactly when
\* prudent_sale <= 0, roi exactly when total_investment <= 0, the
\* break-even divisor is max(1 - sale_rate, 1e-9), and a scenario's margin
\* is NaN exactly when its sale value is <= 0.
C9_CalculationTotal ==
    /\ pc # "raised"
    /\ pc \in {"bc_inicial", "preco_otimo", "bc_otimo", "stressed"} =>
          DegeneracyAsValue(bc_inicial)
    /\ AfterOtimo => IsNum(preco_otimo)
    /\ AfterBcOtimo => DegeneracyAsValue(bc_otimo)
    /\ pc = "stressed" => /\ StressDegeneracyAsValue(stress_initial, bc_inicial)
                          /\ StressDegeneracyAsValue(stress_opt, bc_otimo)

C9_Witness ==
    /\ pc = "stressed"
    /\ bc_inicial.venda_prudente = Zero
    /\ bc_inicial.investimento_total = Zero
    /\ bc_inicial.margem_liquida = NaN
    /\ bc_inicial.roi = NaN
    /\ SolverDenominator = Zero
    /\ inp.taxa_venda = One
    /\ stress_initial.out[2].margem = NaN

\* the months the delay scenario scales by: absorption_months when it is
\* positive, 6 otherwise
DelayMonths ==
    IF IsNum(inp.abs_meses) /\ inp.abs_meses[1] > 0 THEN inp.abs_meses ELSE Frac(6, 1)

Adverse(stress, bc) ==
    LET base == stress.out[1].lucro
        P == bc.compra
        V == bc.venda_prudente
        W == bc.obra_total
    IN /\ \A i \in 2..4 : RLe(stress.out[i].lucro, base)
       \* only the sale side, the renovation or the holding time is perturbed
       /\ RSub(base, stress.out[2].lucro) =
             RMul(RMul(V, Frac(5, 100)), RSub(One, inp.taxa_venda))
       /\ RSub(base, stress.out[3].lucro) =
             RMul(RMul(W, Frac(10, 100)), RAdd(One, inp.taxa_holding))
       /\ RSub(base, stress.out[4].lucro) =
             RMul(RMul(RAdd(P, W), inp.taxa_holding),
                  RSub(RDiv(RAdd(DelayMonths, Frac(3, 1)), DelayMonths), One))

AdverseDomain ==
    /\ RGe(inp.compra, Zero)
    /\ RGt(bc_inicial.venda_prudente, Zero)
    /\ RGe(bc_inicial.obra_total, Zero)
    /\ RGe(inp.taxa_aquisicao, Zero)
    /\ RGe(inp.taxa_holding, Zero)
    /\ RGe(inp.taxa_venda, Zero)
    /\ RLt(inp.taxa_venda, One)

\* C10: with non-negative purchase price, renovation total, acquisition
\* and holding rates, prudent_sale > 0 and 0 <= sale_rate < 1, each
\* stressed scenario has a profit <= the Base profit for every absorption
\* value, none perturbs the purchase price, and the delay scale is
\* (months + 3) / months > 1 with months = 6 when absorption is not positive.
C10_StressAdverse ==
    pc = "stressed" =>
        /\ DelayScale(inp.abs_meses) =
              RDiv(RAdd(DelayMonths, Frac(3, 1)), DelayMonths)
        /\ RGt(DelayScale(inp.abs_meses), One)
        /\ AdverseDomain => /\ Adverse(stress_initial, bc_inicial)
                            /\ Adverse(stress_opt, bc_otimo)

C10_Witness ==
    /\ pc = "stressed"
    /\ AdverseDomain
    /\ RGt(inp.compra, Zero)
    /\ RGt(inp.taxa_holding, Zero)
    /\ RGt(bc_inicial.obra_total, Zero)
    /\ ~(IsNum(inp.abs_meses) /\ inp.abs_meses[1] > 0)
    /\ \A i \in 2..4 : RLt(stress_initial.out[i].lucro, stress_initial.out[1].lucro)

----------------------------------------------------------------------------
(* Properties of the data run (SpecData).                                  *)

\* the rows of df whose locality equals the requested one ignoring case
MatchIndices(df, localidade) ==
    {i \in 1..Len(df) : Casefold(df[i]["Localidade"]) = Casefold(localidade)}

Matched == MatchIndices(market_df, req.localidade) # {}

\* the first of them in table order
MatchedRow ==
    market_df[CHOOSE i \in MatchIndices(market_df, req.localidade) :
                \A j \in MatchIndices(market_df, req.localidade) : i <= j]

KnownTipologias == {"T0", "T1", "T2", "T3", "T4+"}

\* the typology table: the price column each typology targets
TargetPrecoColumn(tipologia) ==
    CASE tipologia \in {"T0", "T1"} -> "Preco_m2_T1"
      [] tipologia = "T2" -> "Preco_m2_T2"
      [] tipologia \in {"T3", "T4+"} -> "Preco_m2_T3"

\* the label the code attaches to a hit in each price column
ColumnLabel(col) ==
    CASE col = "Preco_m2_T1" -> "Apt. T1 (ou inf.)"
      [] col = "Preco_m2_T2" -> "Apt. T2"
      [] col = "Preco_m2_T3" -> "Apt. T3 (proxy p/ T4+)"

PriceFollowsTable ==
    LET col == TargetPrecoColumn(req.tipologia)
    IN /\ pv_m2.exc = "none"
       /\ IF MatchedRow[col] # NaN
          THEN pv_m2.val = MatchedRow[col] /\ pv_m2.label # "Total (fallback)"
          ELSE pv_m2.val = MatchedRow["Preco_m2_Total"]
               /\ pv_m2.label = "Total (fallback)"

\* C4 as stated: the price follows the typology table, with the overall
\* price as the fallback, and the source label of a hit distinguishes T0
\* from T1 and T3 from T4plus.
C4_LabelDistinguishesTypology ==
    (pc = "priced" /\ Matched /\ req.tipologia \in KnownTipologias) =>
        /\ PriceFollowsTable
        /\ (req.tipologia = "T0" /\ pv_m2.label # "Total (fallback)") =>
              pv_m2.label #
                 get_sale_price_per_m2(market_df, req.localidade, "T1").label
        /\ (req.tipologia = "T4+" /\ pv_m2.label # "Total (fallback)") =>
              pv_m2.label #
                 get_sale_price_per_m2(market_df, req.localidade, "T3").label

\* C4 amended: the price follows the typology table (T0 and T1 -> t1,
\* T2 -> t2, T3 and T4plus -> t3, the overall price with the fallback label
\* when the targeted column is absent); the label of a hit names the column
\* used, the same for T0 and T1 and the same for T3 and T4plus.
C4_SalePriceFollowsTable ==
    (pc = "priced" /\ Matched /\ req.tipologia \in KnownTipologias) =>
        /\ PriceFollowsTable
        /\ pv_m2.label # "Total (fallback)" =>
              pv_m2.label = ColumnLabel(TargetPrecoColumn(req.tipologia))

C4_Witness ==
    /\ pc = "priced"
    /\ Matched
    /\ req.tipologia = "T4+"
    /\ MatchedRow["Preco_m2_T3"] # NaN
    /\ MatchedRow["Preco_m2_T1"] = NaN
    /\ pv_m2.val = MatchedRow["Preco_m2_T3"]
    /\ pv_m2.label = "Apt. T3 (proxy p/ T4+)"

\* the absorption column each typology targets
TargetAbsorcaoColumn(tipologia) ==
    CASE tipologia \in {"T0", "T1"} -> "Absorcao_T1"
      [] tipologia = "T2" -> "Absorcao_T2"
      [] tipologia \in {"T3", "T4+"} -> "Absorcao_T3"

\* C5: for a matched row the absorption is the typology column's months
\* when present, else the overall months when present, else the default
\* 6.0 with the default label; it never raises and is never NaN.
C5_AbsorptionFallbackChain ==
    (pc = "absorbed" /\ Matched) =>
        /\ abs_res.exc = "none"
        /\ IsNum(abs_res.val)
        /\ req.tipologia \in KnownTipologias =>
              LET col == TargetAbsorcaoColumn(req.tipologia)
              IN IF MatchedRow[col] # NaN
                 THEN abs_res.val = MatchedRow[col] /\ abs_res.label = col
                 ELSE IF MatchedRow["Absorcao_Total"] # NaN
                 THEN /\ abs_res.val = MatchedRow["Absorcao_Total"]
                      /\ abs_res.label = "Absorcao_Total (fallback)"
                 ELSE /\ abs_res.val = Frac(6, 1)
                      /\ abs_res.label = "Default 6 (sem dados)"

C5_Witness ==
    /\ pc = "absorbed"
    /\ Matched
    /\ req.tipologia = "T4+"
    /\ MatchedRow["Absorcao_T3"] = NaN
    /\ MatchedRow["Absorcao_Total"] = NaN
    /\ MatchedRow["Absorcao_T1"] # NaN
    /\ abs_res.val = Frac(6, 1)

\* the table of the first matching row alone
FirstMatchOnly == <<MatchedRow>>

\* C6: both resolvers use the first row, in table order, whose locality
\* equals the requested one ignoring case; requests that differ only in
\* case get the same result for every typology; with no such row both fail
\* with the locality-not-found error; the table stays as loaded.
C6_LocalityLookup ==
    /\ pc = "priced" =>
          /\ IF Matched
             THEN pv_m2 = get_sale_price_per_m2(FirstMatchOnly, req.localidade,
                                                req.tipologia)
                  /\ pv_m2.exc = "none"
             ELSE pv_m2 = NotFound
          /\ \A l \in Localidades, tp \in Tipologias :
                Casefold(l) = Casefold(req.localidade) =>
                   get_sale_price_per_m2(market_df, l, tp) =
                      get_sale_price_per_m2(market_df, req.localidade, tp)
    /\ pc = "absorbed" =>
          /\ IF Matched
             THEN abs_res = estimate_absorption_months(FirstMatchOnly, req.localidade,
                                                       req.tipologia)
                  /\ abs_res.exc = "none"
             ELSE abs_res = NotFound
          /\ \A l \in Localidades, tp \in Tipologias :
                Casefold(l) = Casefold(req.localidade) =>
                   estimate_absorption_months(market_df, l, tp) =
                      estimate_absorption_months(market_df, req.localidade, tp)
    /\ pc \in {"priced", "absorbed"} => market_df = load_market_data(source).df

C6_Witness ==
    /\ pc = "priced"
    /\ Cardinality(MatchIndices(market_df, req.localidade)) = 2
    /\ \A i \in 1..Len(market_df) : market_df[i]["Localidade"] # req.localidade
    /\ market_df[1]["Localidade"] # market_df[2]["Localidade"]
    /\ pv_m2.val = market_df[1]["Preco_m2_T2"]
    /\ pv_m2.val # market_df[2]["Preco_m2_T2"]

\* C7: load fails with the structure error, producing no table, for every
\* source with fewer than 23 columns, and accepts every source with 23 or
\* more columns.
C7_LoaderColumnCount ==
    pc \in {"loaded", "load_failed"} =>
        IF source.ncols < 23
        THEN load_exc = "ValueError: Estrutura do Excel inesperada" /\ market_df = <<>>
        ELSE load_exc = "none" /\ pc = "loaded"

====
